---- MODULE Spec2Model ----
(***************************************************************************)
(* A model of the solana-tss HTTP facade (src/src/main.rs, models.rs) and  *)
(* of the two-round N-of-N Schnorr signing protocol it drives.             *)
(*                                                                         *)
(* The handlers of main.rs are translated one operator per handler.  The   *)
(* modules tss, serialization, error and spl_token_utils that main.rs      *)
(* declares (main.rs:35-39) are not among the source files; their          *)
(* operations are modelled from the specification text, constrained by the *)
(* call sites in main.rs.                                                  *)
(*                                                                         *)
(* Cryptography is modelled symbolically: a scalar is a polynomial over    *)
(* atoms (secret keys, nonces, hash outputs) with coefficients modulo the  *)
(* group order, a point s*B is represented by its scalar s, and a hash is  *)
(* a free constructor of a new atom (an ideal, collision-free hash).  Two  *)
(* scalars are equal exactly when they are equal for every value of the    *)
(* atoms, so an equation that the model finds to hold is an algebraic      *)
(* identity, and one it finds to fail fails unless hash outputs collide.   *)
(***************************************************************************)
EXTENDS Integers, Sequences, FiniteSets, TLC

\* The group order l of section 3, scaled down to a small prime.
GroupOrder == 7

----------------------------------------------------------------------------
(* Curve primitives: scalars modulo the group order and points.            *)
(* A monomial is a set of <<atom, exponent>> pairs, a scalar a set of      *)
(* <<monomial, coefficient>> pairs with coefficients in 1..GroupOrder-1.   *)

Monos(p) == {t[1] : t \in p}

Coef(p, m) == IF \E t \in p : t[1] = m THEN (CHOOSE t \in p : t[1] = m)[2] ELSE 0

ScalarZero == {}

ScalarOne == {<<{}, 1>>}

\* The scalar that is the single atom a.
ScalarOf(a) == {<<{<<a, 1>>}, 1>>}

ScalarAdd(p, q) ==
    {t \in {<<m, (Coef(p, m) + Coef(q, m)) % GroupOrder>> : m \in Monos(p) \cup Monos(q)} :
        t[2] # 0}

MonoExp(m, a) == IF \E t \in m : t[1] = a THEN (CHOOSE t \in m : t[1] = a)[2] ELSE 0

MonoMul(m1, m2) ==
    {<<a, MonoExp(m1, a) + MonoExp(m2, a)>> : a \in {t[1] : t \in m1} \cup {t[1] : t \in m2}}

RECURSIVE SumProducts(_)
SumProducts(S) ==
    IF S = {} THEN 0
    ELSE LET pr == CHOOSE x \in S : TRUE
         IN  (pr[1][2] * pr[2][2] + SumProducts(S \ {pr})) % GroupOrder

ScalarMul(p, q) ==
    LET pairs == p \X q
        ms    == {MonoMul(pr[1][1], pr[2][1]) : pr \in pairs}
    IN  {t \in {<<m, SumProducts({pr \in pairs : MonoMul(pr[1][1], pr[2][1]) = m})>> : m \in ms} :
            t[2] # 0}

RECURSIVE ScalarSum(_)
ScalarSum(seq) ==
    IF seq = <<>> THEN ScalarZero ELSE ScalarAdd(Head(seq), ScalarSum(Tail(seq)))

\* A point is s*B for the base point B; it is represented by s.
PointOf(s) == <<"pt", s>>

BasePoint == PointOf(ScalarOne)

PointAdd(P, Q) == PointOf(ScalarAdd(P[2], Q[2]))

PointMul(k, P) == PointOf(ScalarMul(k, P[2]))

RECURSIVE PointSum(_)
PointSum(seq) ==
    IF seq = <<>> THEN PointOf(ScalarZero) ELSE PointAdd(Head(seq), PointSum(Tail(seq)))

\* SHA-512 with a domain-separation label, reduced modulo the group order:
\* an ideal hash, whose output is a fresh atom determined by label and input.
HashAgg(L, X) == ScalarOf(<<"Hagg", L, X>>)

HashNon(X, i, m, C) == ScalarOf(<<"Hnon", X, i, m, C>>)

HashSig(R, X, m) == ScalarOf(<<"Hsig", R, X, m>>)

\* Standard Ed25519 verification of (R, s) under X over m: s*B = R + c*X.
Ed25519Verify(sig, X, m) ==
    PointMul(sig[3], BasePoint) = PointAdd(sig[2], PointMul(HashSig(sig[2], X, m), X))

----------------------------------------------------------------------------
(* Bounds of the model.                                                    *)

\* Individual keypairs 1..MaxKeys exist.
MaxKeys == 5
\* A session sends at most MaxReuse round-two requests that carry a
\* secret_state an earlier round-two request already carried.
MaxReuse == 1
\* A request amount is a whole number of 1/AmountResolution of a unit: of a
\* lamport in a native transfer, of a token in a token transfer.
AmountResolution == 2
\* Stand-in for u64::MAX (TLC's integers are 32 bits wide).
U64Max == 15
\* Request amounts range over 0..MaxAmount (in 1/AmountResolution units).
MaxAmount == 40
\* Longest memo a transaction can carry, in bytes.
MemoLimit == 2

KeyIds == 1..MaxKeys

\* The participant counts of section 8, property 3.
GroupSizes == {1, 2, 3, 5}

----------------------------------------------------------------------------
(* Values and their wire framing.                                          *)

Ok(v) == <<"Ok", v>>

Err(e) == <<"Err", e>>

IsOk(r) == r[1] = "Ok"

None == <<>>

Some(v) == <<v>>

Range(seq) == {seq[i] : i \in DOMAIN seq}

\* Individual keypair k: (secret_scalar, public_point = secret_scalar * B).
Keypair(k) == [secret |-> ScalarOf(<<"x", k>>), public |-> PointOf(ScalarOf(<<"x", k>>))]

PubkeyOf(k) == Keypair(k).public

\* An address that is no participant's key (recipients, programs, mints).
Address(name) == PointOf(ScalarOf(<<"addr", name>>))

SystemProgram == Address("system")

MemoProgram == Address("memo")

TokenProgram == Address("token")

AssociatedTokenProgram == Address("ata")

\* A Base58 string: the kind of object it frames and the object.  A string
\* that frames nothing decodable is Garbage.
Bs58(kind, v) == <<kind, v>>

Garbage == <<"garbage", 0>>

RECURSIVE CollectResults(_, _)
\* iter().map(f).collect::<Result<Vec<_>, _>>(): the first error, else all values.
CollectResults(results, acc) ==
    IF results = <<>> THEN Ok(acc)
    ELSE IF ~IsOk(Head(results)) THEN Head(results)
    ELSE CollectResults(Tail(results), Append(acc, Head(results)[2]))

\* bs58::decode then Keypair::from_bytes, each failure propagated by `?`.
parse_keypair_bs58(s) ==
    IF s[1] = "garbage" THEN Err("BadBase58")
    ELSE IF s[1] # "keypair" THEN Err("WrongKeyPair")
    ELSE Ok(s[2])

\* Pubkey::from_str; every failure is mapped to BadBase58.
parse_pubkey(s) == IF s[1] = "pubkey" THEN Ok(s[2]) ELSE Err("BadBase58")

\* Hash::from_str; every failure is mapped to BadBase58.
parse_hash(s) == IF s[1] = "hash" THEN Ok(s[2]) ELSE Err("BadBase58")

\* Wire framing of the protocol objects (section 6); a string of another
\* kind does not decode.
serialize_bs58(kind, v) == Bs58(kind, v)

deserialize_bs58(kind, s) == IF s[1] = kind THEN Ok(s[2]) ELSE Err("BadEncoding")

ParsePubkeys(strings) ==
    CollectResults([i \in DOMAIN strings |-> parse_pubkey(strings[i])], <<>>)

DeserializeAll(kind, strings) ==
    CollectResults([i \in DOMAIN strings |-> deserialize_bs58(kind, strings[i])], <<>>)

----------------------------------------------------------------------------
(* Payload canonicalizer.                                                  *)

\* An f64 to u64 cast: toward zero, saturating at the ends of the range.
CastU64(v) == IF v < 0 THEN 0 ELSE IF v > U64Max THEN U64Max ELSE v

\* native_token::sol_to_lamports: (sol * LAMPORTS_PER_SOL) as u64.
sol_to_lamports(amount) == CastU64(amount \div AmountResolution)

RECURSIVE Dedup(_)
\* The sequence without the later occurrences of an element.
Dedup(seq) ==
    IF seq = <<>> THEN <<>>
    ELSE LET init == Dedup(SubSeq(seq, 1, Len(seq) - 1))
             last == seq[Len(seq)]
         IN  IF last \in Range(init) THEN init ELSE Append(init, last)

RECURSIVE Flatten(_)
Flatten(seqs) == IF seqs = <<>> THEN <<>> ELSE Head(seqs) \o Flatten(Tail(seqs))

\* An instruction: the program, the accounts it signs for, the accounts it
\* only references, and its data.
Instruction(program_id, signers, others, data) ==
    [program_id |-> program_id, signers |-> signers, others |-> others, data |-> data]

\* system_instruction::transfer(from, to, lamports); `from` signs.
transfer(from, to, lamports) ==
    Instruction(SystemProgram, <<from>>, <<to>>, <<"transfer", lamports>>)

\* Message::new(instructions, Some(payer)): the payer is the first account
\* key, then the other signers, the other accounts and the programs.
MessageNew(instructions, payer) ==
    LET signers == Dedup(<<payer>> \o Flatten([i \in DOMAIN instructions |-> instructions[i].signers]))
        others  == Flatten([i \in DOMAIN instructions |-> instructions[i].others])
        progs   == [i \in DOMAIN instructions |-> instructions[i].program_id]
    IN  [num_required_signatures |-> Len(signers),
         account_keys      |-> Dedup(signers \o others \o progs),
         recent_blockhash  |-> 0,
         instructions      |-> instructions]

NoSignature == <<"sig", PointOf(ScalarZero), ScalarZero>>

\* Transaction::new_unsigned: one default signature per required signer.
TransactionNewUnsigned(msg) ==
    [signatures |-> [i \in 1..msg.num_required_signatures |-> NoSignature], message |-> msg]

FeePayer(tx) == tx.message.account_keys[1]

\* The fee payer is `to` instead of `payer`.
create_unsigned_transaction_PayerIsRecipient(amount, to, memo, payer) ==
    LET transfer_ins == transfer(payer, to, sol_to_lamports(amount))
        msg == IF memo = None
               THEN MessageNew(<<transfer_ins>>, to)
               ELSE LET memo_ins == Instruction(MemoProgram, <<>>, <<>>, <<"memo", memo[1]>>)
                    IN  MessageNew(<<transfer_ins, memo_ins>>, to)
    IN  TransactionNewUnsigned(msg)

\* The memo is left out of the message.
create_unsigned_transaction_WithoutMemo(amount, to, memo, payer) ==
    TransactionNewUnsigned(MessageNew(<<transfer(payer, to, sol_to_lamports(amount))>>, payer))

create_unsigned_transaction(amount, to, memo, payer) ==
    LET transfer_ins == transfer(payer, to, sol_to_lamports(amount))
        msg == IF memo = None
               THEN MessageNew(<<transfer_ins>>, payer)
               ELSE LET memo_ins == Instruction(MemoProgram, <<>>, <<>>, <<"memo", memo[1]>>)
                    IN  MessageNew(<<transfer_ins, memo_ins>>, payer)
    IN  TransactionNewUnsigned(msg)

\* get_associated_token_address(owner, mint).
get_associated_token_address(owner, mint) == PointOf(ScalarOf(<<"ata", owner, mint>>))

\* The token-transfer payload of section 4.1: create the recipient's
\* associated token account, then a checked transfer between the
\* associated accounts, then the optional memo.
create_spl_token_transaction(token_amount, from, to, mint, payer, memo, decimals) ==
    IF to = payer \/ (memo # None /\ Len(memo[1]) > MemoLimit) THEN Err("PayloadError")
    ELSE LET src == get_associated_token_address(from, mint)
             dst == get_associated_token_address(to, mint)
             create_ins == Instruction(AssociatedTokenProgram, <<payer>>,
                               <<dst, to, mint, SystemProgram, TokenProgram>>, <<"create">>)
             transfer_ins == Instruction(TokenProgram, <<from>>, <<src, mint, dst>>,
                               <<"transfer_checked", token_amount, decimals>>)
             memo_ins == IF memo = None THEN <<>>
                         ELSE <<Instruction(MemoProgram, <<>>, <<>>, <<"memo", memo[1]>>)>>
         IN  Ok(TransactionNewUnsigned(
                 MessageNew(<<create_ins, transfer_ins>> \o memo_ins, payer)))

RECURSIVE Pow10(_)
Pow10(n) == IF n = 0 THEN 1 ELSE 10 * Pow10(n - 1)

\* amount * 10^decimals, in whole token units, rounded toward zero.
ScaledAmount(amount, decimals) == (amount * Pow10(decimals)) \div AmountResolution

\* Transaction::sign(&[keypair], recent_blockhash): standard Ed25519, with
\* the nonce derived from the key and the message.
TransactionSign(tx, keypair, recent_blockhash) ==
    LET m == [tx.message EXCEPT !.recent_blockhash = recent_blockhash]
        r == ScalarOf(<<"Hnonce", keypair.secret, m>>)
        R == PointMul(r, BasePoint)
        c == HashSig(R, keypair.public, m)
    IN  [signatures |-> [tx.signatures EXCEPT ![1] =
                            <<"sig", R, ScalarAdd(r, ScalarMul(c, keypair.secret))>>],
         message |-> m]

\* Transaction::verify: every signature slot verifies under its account key.
TransactionVerify(tx) ==
    \A i \in DOMAIN tx.signatures :
        Ed25519Verify(tx.signatures[i], tx.message.account_keys[i], tx.message)

----------------------------------------------------------------------------
(* Key aggregator (section 4.2).                                           *)

\* The atom of a scalar that is a single atom.
AtomOf(s) == (CHOOSE u \in (CHOOSE t \in s : TRUE)[1] : TRUE)[1]

\* The compressed 32-byte form of an individual public key, as a number
\* that orders as the bytes do.
CompressedBytes(P) == (3 * AtomOf(P[2])[2]) % 7

RECURSIVE SortKeys(_)
\* The keys in the lexicographic order of their compressed forms.
SortKeys(keys) ==
    IF keys = <<>> THEN <<>>
    ELSE LET least == CHOOSE i \in DOMAIN keys :
                          \A j \in DOMAIN keys :
                              CompressedBytes(keys[i]) <= CompressedBytes(keys[j])
         IN  <<keys[least]>> \o
             SortKeys([j \in 1..(Len(keys) - 1) |-> IF j < least THEN keys[j] ELSE keys[j + 1]])

HasDuplicate(keys) == \E i, j \in DOMAIN keys : i # j /\ keys[i] = keys[j]

\* The list as the request gives it.
KeyListAsGiven(keys) == keys

\* Step 1: L, the sorted list of the participants' keys.
KeyList(keys) == SortKeys(keys)

\* Steps 2 and 3: a_i = H_agg(L || X_i) and X~ = sum of a_i * X_i.
AggregatedKey(L) == PointSum([i \in DOMAIN L |-> PointMul(HashAgg(L, L[i]), L[i])])

\* key_agg(keys, key): the aggregated key, and the coefficient of `key`
\* when one is given.
key_agg(keys, key) ==
    IF HasDuplicate(keys) THEN Err("DuplicateKey")
    ELSE IF key # None /\ key[1] \notin Range(keys) THEN Err("MismatchedParticipants")
    ELSE LET L == KeyList(keys)
         IN  Ok([agg_public_key |-> AggregatedKey(L),
                 coefficient |-> IF key = None THEN None ELSE Some(HashAgg(L, key[1]))])

----------------------------------------------------------------------------
(* Round 1 (section 4.3), round 2 (section 4.4), assembly (section 4.5).   *)

\* step_one(keypair): two fresh scalars d, e from the CSPRNG (`draw` names
\* the draw), the commitment (X_self, D, E) and the witness (d, e, X_self).
step_one(keypair, draw) ==
    LET d == ScalarOf(<<"d", draw[1], draw[2]>>)
        e == ScalarOf(<<"e", draw[1], draw[2]>>)
    IN  <<[sender |-> keypair.public, D |-> PointMul(d, BasePoint), E |-> PointMul(e, BasePoint)],
          [public |-> keypair.public, d |-> d, e |-> e]>>

\* The commitment among first_messages sent by X.
CommitmentOf(first_messages, X) ==
    first_messages[CHOOSE i \in DOMAIN first_messages : first_messages[i].sender = X]

\* C: the (D_j, E_j) of all participants, in the sorted order L of the keys.
Commitments(L, first_messages) ==
    [j \in DOMAIN L |->
        LET c == CommitmentOf(first_messages, L[j]) IN <<c.D, c.E>>]

\* b_i = H_non(X~ || i || m || C).
NonceBinding(X, i, m, C) == HashNon(X, i, m, C)

\* R = sum over j of D_j + b_j * E_j.
AggregatedNonce(X, m, C) ==
    PointSum([j \in DOMAIN C |-> PointAdd(C[j][1], PointMul(NonceBinding(X, j, m, C), C[j][2]))])

\* The partial signature of the signer `keypair` over the transaction tx.
PartialSign(keypair, tx, keys, agg, first_messages, secret_state) ==
    IF secret_state.public # keypair.public THEN Err("StaleWitness")
    ELSE IF \/ Len(first_messages) # Len(keys)
            \/ \E j \in DOMAIN keys :
                   Cardinality({i \in DOMAIN first_messages :
                                   first_messages[i].sender = keys[j]}) # 1
         THEN Err("MismatchedParticipants")
    ELSE LET X    == agg[2].agg_public_key
             m    == tx.message
             L    == KeyList(keys)
             C    == Commitments(L, first_messages)
             self == CHOOSE j \in DOMAIN L : L[j] = keypair.public
             R    == AggregatedNonce(X, m, C)
             c    == HashSig(R, X, m)
         IN  Ok([R |-> R,
                 s |-> ScalarSum(<<secret_state.d,
                                   ScalarMul(NonceBinding(X, self, m, C), secret_state.e),
                                   ScalarMul(c, ScalarMul(agg[2].coefficient[1],
                                                          keypair.secret))>>)])

WithBlockhash(tx, block_hash) ==
    [tx EXCEPT !.message = [tx.message EXCEPT !.recent_blockhash = block_hash]]

\* step_two: the partial signature over the native transfer whose fee payer
\* is the aggregated key.
step_two(keypair, amount, to, memo, block_hash, keys, first_messages, secret_state) ==
    LET agg == key_agg(keys, Some(keypair.public))
    IN  IF ~IsOk(agg) THEN agg
        ELSE PartialSign(keypair,
                 WithBlockhash(create_unsigned_transaction(amount, to, memo,
                                   agg[2].agg_public_key), block_hash),
                 keys, agg, first_messages, secret_state)

\* amount_units = floor(amount * 10^decimals), PayloadError when it does
\* not fit in u64.
TokenUnits(amount, decimals) ==
    IF ScaledAmount(amount, decimals) < 0 \/ ScaledAmount(amount, decimals) > U64Max
    THEN Err("PayloadError")
    ELSE Ok(ScaledAmount(amount, decimals))

\* The token transfer of the aggregation flow: the aggregated key owns the
\* source account and pays the fee.
SplAggTransaction(amount, to, token_mint, decimals, memo, block_hash, X) ==
    LET units == TokenUnits(amount, decimals)
    IN  IF ~IsOk(units) THEN units
        ELSE LET tx == create_spl_token_transaction(units[2], X, to, token_mint, X, memo, decimals)
             IN  IF ~IsOk(tx) THEN tx ELSE Ok(WithBlockhash(tx[2], block_hash))

spl_step_two(keypair, amount, to, token_mint, decimals, memo, block_hash, keys, first_messages, secret_state) ==
    LET agg == key_agg(keys, Some(keypair.public))
    IN  IF ~IsOk(agg) THEN agg
        ELSE LET tx == SplAggTransaction(amount, to, token_mint, decimals, memo, block_hash,
                                         agg[2].agg_public_key)
             IN  IF ~IsOk(tx) THEN tx
                 ELSE PartialSign(keypair, tx[2], keys, agg, first_messages, secret_state)

\* s is the scalar of the first partial signature alone.
AssembleSignature_FirstScalar(signatures) == <<"sig", signatures[1].R, signatures[1].s>>

\* s = sum of the partial scalars; R is the aggregated nonce that the
\* partial signatures carry (the assembler is handed no commitments).
AssembleSignature(signatures) ==
    <<"sig", signatures[1].R, ScalarSum([i \in DOMAIN signatures |-> signatures[i].s])>>

\* The transaction is returned whether or not its signature verifies.
AssembleUnverified(tx, signatures) ==
    IF signatures # <<>> THEN Ok([tx EXCEPT !.signatures[1] = AssembleSignature(signatures)])
    ELSE Err("InvalidAggregation")

\* The signature goes into the slot of the fee payer; the transaction is
\* returned only if it verifies.
Assemble(tx, signatures) ==
    LET signed == [tx EXCEPT !.signatures[1] = AssembleSignature(signatures)]
    IN  IF signatures # <<>> /\ TransactionVerify(signed) THEN Ok(signed)
        ELSE Err("InvalidAggregation")

sign_and_broadcast(amount, to, memo, block_hash, keys, signatures) ==
    LET agg == key_agg(keys, None)
    IN  IF ~IsOk(agg) THEN agg
        ELSE Assemble(WithBlockhash(create_unsigned_transaction(amount, to, memo,
                          agg[2].agg_public_key), block_hash), signatures)

spl_sign_and_broadcast(amount, to, token_mint, decimals, memo, block_hash, keys, signatures) ==
    LET agg == key_agg(keys, None)
    IN  IF ~IsOk(agg) THEN agg
        ELSE LET tx == SplAggTransaction(amount, to, token_mint, decimals, memo, block_hash,
                                         agg[2].agg_public_key)
             IN  IF ~IsOk(tx) THEN tx ELSE Assemble(tx[2], signatures)

----------------------------------------------------------------------------
(* The HTTP facade: one operator per handler of main.rs.  A handler takes  *)
(* the request and, where it talks to the RPC node, the outcome `rpc` of   *)
(* each RPC operation; it gives the response and the RPC calls it made,    *)
(* in order, each <<operation, url, arguments, succeeded>>.                *)

Networks == {"mainnet", "testnet", "devnet"}

get_cluster_url(net) ==
    CASE net = "mainnet" -> "https://api.mainnet-beta.solana.com"
      [] net = "testnet" -> "https://api.testnet.solana.com"
      [] net = "devnet"  -> "https://api.devnet.solana.com"

ErrorResponse(error) == [error |-> error]

\* An error is answered with status 200.
error_response_Ok(error) ==
    [status |-> 200, content_type |-> "application/json", body |-> ErrorResponse(error)]

error_response(error) ==
    [status |-> 400, content_type |-> "application/json", body |-> ErrorResponse(error)]

success_response(data) ==
    [status |-> 200, content_type |-> "application/json", body |-> data]

Reply(response, calls) == [response |-> response, calls |-> calls]

RpcCall(op, net, args, result) == <<op, get_cluster_url(net), args, IsOk(result)>>

generate_keypair(draw) ==
    Reply(success_response([secret_share |-> Bs58("keypair", Keypair(draw)),
                            public_share |-> Bs58("pubkey", PubkeyOf(draw))]), <<>>)

balance(req, rpc) ==
    LET address == parse_pubkey(req.address)
    IN  IF ~IsOk(address) THEN Reply(error_response(address[2]), <<>>)
        ELSE LET c1 == RpcCall("get_balance", req.net, <<address[2]>>, rpc.get_balance)
             IN  IF ~IsOk(rpc.get_balance)
                 THEN Reply(error_response("BalaceFailed"), <<c1>>)
                 ELSE Reply(success_response([address |-> Bs58("pubkey", address[2]),
                                              balance |-> rpc.get_balance[2]]), <<c1>>)

airdrop(req, rpc) ==
    LET to == parse_pubkey(req.to)
    IN  IF ~IsOk(to) THEN Reply(error_response(to[2]), <<>>)
        ELSE
        LET amount == sol_to_lamports(req.amount)
            c1 == RpcCall("request_airdrop", req.net, <<to[2], amount>>, rpc.request_airdrop)
        IN  IF ~IsOk(rpc.request_airdrop)
            THEN Reply(error_response("AirdropFailed"), <<c1>>)
            ELSE
        LET sig == rpc.request_airdrop[2]
            c2 == RpcCall("get_latest_blockhash", req.net, <<>>, rpc.get_latest_blockhash)
        IN  IF ~IsOk(rpc.get_latest_blockhash)
            THEN Reply(error_response("RecentHashFailed"), <<c1, c2>>)
            ELSE
        LET recent_hash == rpc.get_latest_blockhash[2]
            c3 == RpcCall("confirm_transaction", req.net, <<sig, recent_hash>>,
                          rpc.confirm_transaction)
        IN  IF ~IsOk(rpc.confirm_transaction)
            THEN Reply(error_response("ConfirmingTransactionFailed"), <<c1, c2, c3>>)
            ELSE Reply(success_response([transaction_id |-> Bs58("signature", sig)]),
                       <<c1, c2, c3>>)

\* A failed send is attempted a second time.
SendAndConfirm_Resends(net, tx, block_hash, rpc, before) ==
    LET c1 == RpcCall("send_transaction", net, <<tx>>, rpc.send_transaction)
    IN  IF ~IsOk(rpc.send_transaction)
        THEN Reply(error_response("SendTransactionFailed"), before \o <<c1, c1>>)
        ELSE
        LET sig == tx.signatures[1]
            c2 == RpcCall("confirm_transaction", net, <<sig, block_hash>>,
                          rpc.confirm_transaction)
        IN  IF ~IsOk(rpc.confirm_transaction)
            THEN Reply(error_response("ConfirmingTransactionFailed"), before \o <<c1, c2>>)
            ELSE Reply(success_response([transaction_id |-> Bs58("signature", sig)]),
                       before \o <<c1, c2>>)

\* The tail shared by the handlers that submit a transaction: send it, then
\* confirm it against block_hash.
SendAndConfirm(net, tx, block_hash, rpc, before) ==
    LET c1 == RpcCall("send_transaction", net, <<tx>>, rpc.send_transaction)
    IN  IF ~IsOk(rpc.send_transaction)
        THEN Reply(error_response("SendTransactionFailed"), Append(before, c1))
        ELSE
        LET sig == tx.signatures[1]
            c2 == RpcCall("confirm_transaction", net, <<sig, block_hash>>,
                          rpc.confirm_transaction)
        IN  IF ~IsOk(rpc.confirm_transaction)
            THEN Reply(error_response("ConfirmingTransactionFailed"), before \o <<c1, c2>>)
            ELSE Reply(success_response([transaction_id |-> Bs58("signature", sig)]),
                       before \o <<c1, c2>>)

\* The transaction is confirmed against another block hash than the one it
\* was signed with.
FetchSignSend_ConfirmsOther(net, tx, keypair, rpc) ==
    LET c0 == RpcCall("get_latest_blockhash", net, <<>>, rpc.get_latest_blockhash)
    IN  IF ~IsOk(rpc.get_latest_blockhash)
        THEN Reply(error_response("RecentHashFailed"), <<c0>>)
        ELSE LET recent_hash == rpc.get_latest_blockhash[2]
             IN  SendAndConfirm(net, TransactionSign(tx, keypair, recent_hash),
                                recent_hash + 1, rpc, <<c0>>)

\* The tail of send_single and spl_send_single: fetch the block hash, sign
\* with it, send and confirm.
FetchSignSend(net, tx, keypair, rpc) ==
    LET c0 == RpcCall("get_latest_blockhash", net, <<>>, rpc.get_latest_blockhash)
    IN  IF ~IsOk(rpc.get_latest_blockhash)
        THEN Reply(error_response("RecentHashFailed"), <<c0>>)
        ELSE LET recent_hash == rpc.get_latest_blockhash[2]
             IN  SendAndConfirm(net, TransactionSign(tx, keypair, recent_hash), recent_hash,
                                rpc, <<c0>>)

\* The block hash is fetched before the address of the recipient is decoded.
send_single_FetchesFirst(req, rpc) ==
    LET keypair == parse_keypair_bs58(req.keypair)
    IN  IF ~IsOk(keypair) THEN Reply(error_response(keypair[2]), <<>>)
        ELSE
        LET c0 == RpcCall("get_latest_blockhash", req.net, <<>>, rpc.get_latest_blockhash)
            to == parse_pubkey(req.to)
        IN  IF ~IsOk(to) THEN Reply(error_response(to[2]), <<c0>>)
            ELSE FetchSignSend(req.net,
                     create_unsigned_transaction(req.amount, to[2], req.memo, keypair[2].public),
                     keypair[2], rpc)

send_single(req, rpc) ==
    LET keypair == parse_keypair_bs58(req.keypair)
    IN  IF ~IsOk(keypair) THEN Reply(error_response(keypair[2]), <<>>)
        ELSE
        LET to == parse_pubkey(req.to)
        IN  IF ~IsOk(to) THEN Reply(error_response(to[2]), <<>>)
            ELSE FetchSignSend(req.net,
                     create_unsigned_transaction(req.amount, to[2], req.memo, keypair[2].public),
                     keypair[2], rpc)

recent_block_hash(req, rpc) ==
    LET c1 == RpcCall("get_latest_blockhash", req.net, <<>>, rpc.get_latest_blockhash)
    IN  IF ~IsOk(rpc.get_latest_blockhash)
        THEN Reply(error_response("RecentHashFailed"), <<c1>>)
        ELSE Reply(success_response([recent_block_hash |->
                                        Bs58("hash", rpc.get_latest_blockhash[2])]), <<c1>>)

\* The aggregated key is taken to be the first key of the request.
aggregate_keys_FirstKey(req) ==
    LET keys == ParsePubkeys(req.keys)
    IN  IF ~IsOk(keys) THEN Reply(error_response(keys[2]), <<>>)
        ELSE Reply(success_response([aggregated_public_key |-> Bs58("pubkey", keys[2][1])]), <<>>)

aggregate_keys(req) ==
    LET keys == ParsePubkeys(req.keys)
    IN  IF ~IsOk(keys) THEN Reply(error_response(keys[2]), <<>>)
        ELSE
        LET aggkey == key_agg(keys[2], None)
        IN  IF ~IsOk(aggkey) THEN Reply(error_response(aggkey[2]), <<>>)
            ELSE Reply(success_response([aggregated_public_key |->
                                            Bs58("pubkey", aggkey[2].agg_public_key)]), <<>>)

\* The secret_state comes from another draw than message_1.
agg_send_step_one_TwoDraws(req, draw) ==
    LET keypair == parse_keypair_bs58(req.keypair)
    IN  IF ~IsOk(keypair) THEN Reply(error_response(keypair[2]), <<>>)
        ELSE LET first_msg == step_one(keypair[2], draw)[1]
                 secret    == step_one(keypair[2], <<draw[1], draw[2] + 1>>)[2]
             IN  Reply(success_response([message_1    |-> serialize_bs58("msg1", first_msg),
                                         secret_state |-> serialize_bs58("secret", secret)]),
                       <<>>)

agg_send_step_one(req, draw) ==
    LET keypair == parse_keypair_bs58(req.keypair)
    IN  IF ~IsOk(keypair) THEN Reply(error_response(keypair[2]), <<>>)
        ELSE LET first_msg == step_one(keypair[2], draw)[1]
                 secret    == step_one(keypair[2], draw)[2]
             IN  Reply(success_response([message_1    |-> serialize_bs58("msg1", first_msg),
                                         secret_state |-> serialize_bs58("secret", secret)]),
                       <<>>)

agg_send_step_two(req) ==
    LET keypair == parse_keypair_bs58(req.keypair)
    IN  IF ~IsOk(keypair) THEN Reply(error_response(keypair[2]), <<>>)
        ELSE
        LET to == parse_pubkey(req.to)
        IN  IF ~IsOk(to) THEN Reply(error_response(to[2]), <<>>)
            ELSE
        LET block_hash == parse_hash(req.recent_block_hash)
        IN  IF ~IsOk(block_hash) THEN Reply(error_response(block_hash[2]), <<>>)
            ELSE
        LET keys == ParsePubkeys(req.keys)
        IN  IF ~IsOk(keys) THEN Reply(error_response(keys[2]), <<>>)
            ELSE
        LET first_messages == DeserializeAll("msg1", req.first_messages)
        IN  IF ~IsOk(first_messages) THEN Reply(error_response(first_messages[2]), <<>>)
            ELSE
        LET secret_state == deserialize_bs58("secret", req.secret_state)
        IN  IF ~IsOk(secret_state) THEN Reply(error_response(secret_state[2]), <<>>)
            ELSE
        LET sig == step_two(keypair[2], req.amount, to[2], req.memo, block_hash[2], keys[2],
                            first_messages[2], secret_state[2])
        IN  IF ~IsOk(sig) THEN Reply(error_response(sig[2]), <<>>)
            ELSE Reply(success_response([partial_signature |->
                                            serialize_bs58("partial", sig[2])]), <<>>)

aggregate_signatures(req, rpc) ==
    LET to == parse_pubkey(req.to)
    IN  IF ~IsOk(to) THEN Reply(error_response(to[2]), <<>>)
        ELSE
        LET block_hash == parse_hash(req.recent_block_hash)
        IN  IF ~IsOk(block_hash) THEN Reply(error_response(block_hash[2]), <<>>)
            ELSE
        LET keys == ParsePubkeys(req.keys)
        IN  IF ~IsOk(keys) THEN Reply(error_response(keys[2]), <<>>)
            ELSE
        LET signatures == DeserializeAll("partial", req.signatures)
        IN  IF ~IsOk(signatures) THEN Reply(error_response(signatures[2]), <<>>)
            ELSE
        LET tx == sign_and_broadcast(req.amount, to[2], req.memo, block_hash[2], keys[2],
                                     signatures[2])
        IN  IF ~IsOk(tx) THEN Reply(error_response(tx[2]), <<>>)
            ELSE SendAndConfirm(req.net, tx[2], block_hash[2], rpc, <<>>)

\* Account::unpack and Mint::unpack of the raw account bytes.
AccountUnpack(data) ==
    IF data[1] = "token_account" THEN Ok([amount |-> data[2]]) ELSE Err("InvalidAccountData")

MintUnpack(data) ==
    IF data[1] = "mint" THEN Ok([decimals |-> data[2]]) ELSE Err("InvalidAccountData")

spl_token_balance(req, rpc) ==
    LET owner == parse_pubkey(req.owner)
    IN  IF ~IsOk(owner) THEN Reply(error_response(owner[2]), <<>>)
        ELSE
        LET token_mint == parse_pubkey(req.token_mint)
        IN  IF ~IsOk(token_mint) THEN Reply(error_response(token_mint[2]), <<>>)
            ELSE
        LET token_account == get_associated_token_address(owner[2], token_mint[2])
            c1 == RpcCall("get_account", req.net, <<token_account>>, rpc.get_token_account)
        IN  IF ~IsOk(rpc.get_token_account)
            THEN Reply(error_response("Token account not found"), <<c1>>)
            ELSE
        LET token_account_data == AccountUnpack(rpc.get_token_account[2])
        IN  IF ~IsOk(token_account_data)
            THEN Reply(error_response("Failed to parse token account"), <<c1>>)
            ELSE
        LET c2 == RpcCall("get_account", req.net, <<token_mint[2]>>, rpc.get_mint_account)
        IN  IF ~IsOk(rpc.get_mint_account)
            THEN Reply(error_response("Token mint not found"), <<c1, c2>>)
            ELSE
        LET mint_data == MintUnpack(rpc.get_mint_account[2])
        IN  IF ~IsOk(mint_data)
            THEN Reply(error_response("Failed to parse mint account"), <<c1, c2>>)
            ELSE Reply(success_response([owner      |-> Bs58("pubkey", owner[2]),
                                         token_mint |-> Bs58("pubkey", token_mint[2]),
                                         balance    |-> token_account_data[2].amount,
                                         decimals   |-> mint_data[2].decimals]), <<c1, c2>>)

\* (req.amount * 10_f64.powi(req.decimals as i32)) as u64
TokenAmount(amount, decimals) == CastU64(ScaledAmount(amount, decimals))

spl_send_single(req, rpc) ==
    LET keypair == parse_keypair_bs58(req.keypair)
    IN  IF ~IsOk(keypair) THEN Reply(error_response(keypair[2]), <<>>)
        ELSE
        LET to == parse_pubkey(req.to)
        IN  IF ~IsOk(to) THEN Reply(error_response(to[2]), <<>>)
            ELSE
        LET token_mint == parse_pubkey(req.token_mint)
        IN  IF ~IsOk(token_mint) THEN Reply(error_response(token_mint[2]), <<>>)
            ELSE
        LET token_amount == TokenAmount(req.amount, req.decimals)
            tx == create_spl_token_transaction(token_amount, keypair[2].public, to[2],
                      token_mint[2], keypair[2].public, req.memo, req.decimals)
        IN  IF ~IsOk(tx) THEN Reply(error_response(tx[2]), <<>>)
            ELSE FetchSignSend(req.net, tx[2], keypair[2], rpc)

spl_agg_send_step_two(req) ==
    LET keypair == parse_keypair_bs58(req.keypair)
    IN  IF ~IsOk(keypair) THEN Reply(error_response(keypair[2]), <<>>)
        ELSE
        LET to == parse_pubkey(req.to)
        IN  IF ~IsOk(to) THEN Reply(error_response(to[2]), <<>>)
            ELSE
        LET token_mint == parse_pubkey(req.token_mint)
        IN  IF ~IsOk(token_mint) THEN Reply(error_response(token_mint[2]), <<>>)
            ELSE
        LET block_hash == parse_hash(req.recent_block_hash)
        IN  IF ~IsOk(block_hash) THEN Reply(error_response(block_hash[2]), <<>>)
            ELSE
        LET keys == ParsePubkeys(req.keys)
        IN  IF ~IsOk(keys) THEN Reply(error_response(keys[2]), <<>>)
            ELSE
        LET first_messages == DeserializeAll("msg1", req.first_messages)
        IN  IF ~IsOk(first_messages) THEN Reply(error_response(first_messages[2]), <<>>)
            ELSE
        LET secret_state == deserialize_bs58("secret", req.secret_state)
        IN  IF ~IsOk(secret_state) THEN Reply(error_response(secret_state[2]), <<>>)
            ELSE
        LET sig == spl_step_two(keypair[2], req.amount, to[2], token_mint[2], req.decimals,
                                req.memo, block_hash[2], keys[2], first_messages[2],
                                secret_state[2])
        IN  IF ~IsOk(sig) THEN Reply(error_response(sig[2]), <<>>)
            ELSE Reply(success_response([partial_signature |->
                                            serialize_bs58("partial", sig[2])]), <<>>)

spl_aggregate_signatures(req, rpc) ==
    LET to == parse_pubkey(req.to)
    IN  IF ~IsOk(to) THEN Reply(error_response(to[2]), <<>>)
        ELSE
        LET token_mint == parse_pubkey(req.token_mint)
        IN  IF ~IsOk(token_mint) THEN Reply(error_response(token_mint[2]), <<>>)
            ELSE
        LET block_hash == parse_hash(req.recent_block_hash)
        IN  IF ~IsOk(block_hash) THEN Reply(error_response(block_hash[2]), <<>>)
            ELSE
        LET keys == ParsePubkeys(req.keys)
        IN  IF ~IsOk(keys) THEN Reply(error_response(keys[2]), <<>>)
            ELSE
        LET signatures == DeserializeAll("partial", req.signatures)
        IN  IF ~IsOk(signatures) THEN Reply(error_response(signatures[2]), <<>>)
            ELSE
        LET tx == spl_sign_and_broadcast(req.amount, to[2], token_mint[2], req.decimals,
                                         req.memo, block_hash[2], keys[2], signatures[2])
        IN  IF ~IsOk(tx) THEN Reply(error_response(tx[2]), <<>>)
            ELSE SendAndConfirm(req.net, tx[2], block_hash[2], rpc, <<>>)

----------------------------------------------------------------------------
(* A signing session.  The server keeps no state between requests          *)
(* (section 5); the state is what the clients hold: each signer its        *)
(* round-one outputs and its latest partial signature, and the last        *)
(* request with its reply.                                                 *)

VARIABLES
    keys,      \* the session's participants: a list of key ids
    payload,   \* the transfer the session signs
    deviator,  \* the party whose requests may differ: a signer's key id,
               \* Assembler, or Nobody
    rng,       \* rng[k]: the draws the CSPRNG has given to signer k's round one
    msg1,      \* msg1[k]: the message_1 that signer k holds (None or Some)
    secret,    \* secret[k]: the secret_state that signer k holds
    partial,   \* partial[k]: signer k's latest round-two request that was
               \* answered with a partial signature, and that signature
    used,      \* used[k]: the round-two requests answered with a partial
               \* signature from signer k's secret_state
    last       \* the last request: handler, request, reply

vars == <<keys, payload, deviator, rng, msg1, secret, partial, used, last>>

Nobody == 0 - 1

Assembler == 0

Reverse(seq) == [i \in DOMAIN seq |-> seq[Len(seq) + 1 - i]]

PermutationsOf(seq) == {[i \in DOMAIN seq |-> seq[f[i]]] : f \in Permutations(DOMAIN seq)}

\* Participant lists of every size of GroupSizes: every order of up to
\* three keys, and two orders of five.
SessionKeyLists ==
    UNION {PermutationsOf([i \in 1..n |-> i]) : n \in {m \in GroupSizes : m <= 3}}
    \cup {[i \in 1..n |-> i] : n \in GroupSizes} \cup {Reverse([i \in 1..n |-> i]) : n \in GroupSizes}

Memos == {None, Some(<<104, 105>>)}

SessionPayloads ==
    [amount : {2 * AmountResolution}, to : {Address("bob")}, memo : Memos,
     recent_block_hash : {1}]

\* The ways a request may differ from the session's payload and key list.
PayloadKinds == {"amount_sub", "amount", "to", "memo", "memo_byte", "hash"}

KeyKinds == {"perm", "drop"}

\* The second requests of a signer with one secret_state: the same payload
\* again, or another amount.
ReuseKinds == {"none", "amount"}

Tampered(p, kind) ==
    CASE kind = "amount_sub" -> [p EXCEPT !.amount = @ + 1]
      [] kind = "amount"     -> [p EXCEPT !.amount = @ + AmountResolution]
      [] kind = "to"         -> [p EXCEPT !.to = Address("eve")]
      [] kind = "memo"       -> [p EXCEPT !.memo = IF @ = None THEN Some(<<104>>) ELSE None]
      [] kind = "memo_byte"  -> [p EXCEPT !.memo = IF @ = None THEN Some(<<>>)
                                                   ELSE Some([@[1] EXCEPT ![1] = @ + 1])]
      [] kind = "hash"       -> [p EXCEPT !.recent_block_hash = @ + 1]
      [] OTHER               -> p

\* The key list without its last key other than k.
DropOther(list, k) ==
    LET j == CHOOSE i \in DOMAIN list :
                 list[i] # k /\ \A h \in DOMAIN list : h > i => list[h] = k
    IN  [i \in 1..(Len(list) - 1) |-> IF i < j THEN list[i] ELSE list[i + 1]]

TamperedKeys(list, kind, k) ==
    CASE kind = "perm" -> Reverse(list)
      [] kind = "drop" -> DropOther(list, k)
      [] OTHER         -> list

PubkeyStrings(list) == [i \in DOMAIN list |-> Bs58("pubkey", PubkeyOf(list[i]))]

\* AggSendStepTwoRequest (models.rs:96-106) of signer k.
StepTwoRequest(k, kind) ==
    LET p    == Tampered(payload, kind)
        list == TamperedKeys(keys, kind, k)
    IN  [keypair           |-> Bs58("keypair", Keypair(k)),
         amount            |-> p.amount,
         to                |-> Bs58("pubkey", p.to),
         memo              |-> p.memo,
         recent_block_hash |-> Bs58("hash", p.recent_block_hash),
         keys              |-> PubkeyStrings(list),
         first_messages    |-> [i \in DOMAIN list |-> msg1[list[i]][1]],
         secret_state      |-> secret[k][1]]

\* A partial signature string with its scalar replaced by another scalar.
ReplaceScalar(sig, how) ==
    Bs58("partial", [sig[2] EXCEPT !.s = IF how = 1 THEN ScalarAdd(@, ScalarOne)
                                        ELSE ScalarOf(<<"rand", how>>)])

\* AggregateSignaturesRequest (models.rs:113-122).
AggregateRequest(kind, j, how) ==
    LET p    == Tampered(payload, kind)
        list == TamperedKeys(keys, kind, 0)
        sigs == [i \in DOMAIN keys |-> partial[keys[i]][1].signature]
    IN  [signatures        |-> IF kind = "replace"
                               THEN [sigs EXCEPT ![j] = ReplaceScalar(@, how)]
                               ELSE IF kind = "omit"
                               THEN SubSeq(sigs, 1, Len(sigs) - 1)
                               ELSE sigs,
         amount            |-> p.amount,
         to                |-> Bs58("pubkey", p.to),
         memo              |-> p.memo,
         recent_block_hash |-> Bs58("hash", p.recent_block_hash),
         net               |-> "devnet",
         keys              |-> PubkeyStrings(list)]

NoCall == [handler |-> "none", req |-> <<>>, reply |-> <<>>]

Init ==
    /\ keys \in SessionKeyLists
    /\ payload \in SessionPayloads
    /\ deviator \in {Nobody, Assembler} \cup Range(keys)
    /\ rng = [k \in KeyIds |-> 0]
    /\ msg1 = [k \in KeyIds |-> None]
    /\ secret = [k \in KeyIds |-> None]
    /\ partial = [k \in KeyIds |-> None]
    /\ used = [k \in KeyIds |-> 0]
    /\ last = NoCall

\* The place of signer k in the session's key list.
Position(k) == CHOOSE i \in DOMAIN keys : keys[i] = k

\* The session opens with a request for its address, and ends with the
\* assembly.
AggregateKeys(list) ==
    /\ last = NoCall
    /\ last' = [handler |-> "aggregate_keys", req |-> [keys |-> PubkeyStrings(list)],
                reply |-> aggregate_keys([keys |-> PubkeyStrings(list)])]
    /\ UNCHANGED <<keys, payload, deviator, rng, msg1, secret, partial, used>>

\* Signer k runs round one and keeps its outputs; the signers take their
\* turns in the order of the key list.
StepOne(k) ==
    /\ msg1[k] = None
    /\ \A i \in 1..(Position(k) - 1) : msg1[keys[i]] # None
    /\ LET req   == [keypair |-> Bs58("keypair", Keypair(k))]
           reply == agg_send_step_one(req, <<k, rng[k] + 1>>)
       IN  /\ rng' = [rng EXCEPT ![k] = @ + 1]
           /\ last' = [handler |-> "agg_send_step_one", req |-> req, reply |-> reply]
           /\ msg1' = [msg1 EXCEPT ![k] = Some(reply.response.body.message_1)]
           /\ secret' = [secret EXCEPT ![k] = Some(reply.response.body.secret_state)]
    /\ UNCHANGED <<keys, payload, deviator, partial, used>>

\* Signer k, holding every participant's message_1, asks for its partial
\* signature, in its turn; nothing keeps the deviator from asking again
\* with the same secret_state.
StepTwo(k, kind) ==
    /\ last.handler # "aggregate_signatures"
    /\ \A j \in Range(keys) : msg1[j] # None
    /\ kind = "none" \/ deviator = k
    /\ kind \in KeyKinds => Len(keys) > 1
    /\ \A i \in 1..(Position(k) - 1) : partial[keys[i]] # None
    /\ IF partial[k] = None THEN used[k] = 0
       ELSE /\ deviator = k
            /\ used[k] <= MaxReuse
            /\ kind \in ReuseKinds
            /\ \A j \in Range(keys) : partial[j] # None
    /\ LET req   == StepTwoRequest(k, kind)
           reply == agg_send_step_two(req)
       IN  /\ last' = [handler |-> "agg_send_step_two", req |-> req, reply |-> reply]
           /\ IF reply.response.status = 200
              THEN /\ partial' = [partial EXCEPT ![k] =
                          Some([request |-> req,
                                signature |-> reply.response.body.partial_signature])]
                   /\ used' = [used EXCEPT ![k] = @ + 1]
              ELSE UNCHANGED <<partial, used>>
    /\ UNCHANGED <<keys, payload, deviator, rng, msg1, secret>>

\* The assembler, holding every signer's partial signature, asks for the
\* transaction to be assembled and sent.
Aggregate(kind, j, how, rpc) ==
    /\ last.handler # "aggregate_signatures"
    /\ \A k \in Range(keys) : partial[k] # None
    /\ kind = "none" \/ deviator = Assembler
    /\ kind \in KeyKinds \cup {"omit"} => Len(keys) > 1
    /\ LET req == AggregateRequest(kind, j, how)
       IN  last' = [handler |-> "aggregate_signatures", req |-> req,
                    reply |-> aggregate_signatures(req, rpc)]
    /\ UNCHANGED <<keys, payload, deviator, rng, msg1, secret, partial, used>>

\* The outcomes of the RPC operations of one request.
RpcOutcomes ==
    [get_balance           : {Ok(7), Err("rpc")},
     request_airdrop       : {Ok(<<"sig", Address("airdrop"), ScalarZero>>), Err("rpc")},
     get_latest_blockhash  : {Ok(2), Err("rpc")},
     send_transaction      : {Ok(0), Err("rpc")},
     confirm_transaction   : {Ok(0), Err("rpc")},
     get_token_account     : {Ok(<<"token_account", 9>>), Ok(<<"mint", 1>>), Err("rpc")},
     get_mint_account      : {Ok(<<"mint", 1>>), Ok(<<"token_account", 9>>), Err("rpc")}]

DefaultRpc ==
    [get_balance |-> Ok(7), request_airdrop |-> Ok(<<"sig", Address("airdrop"), ScalarZero>>),
     get_latest_blockhash |-> Ok(2), send_transaction |-> Ok(0),
     confirm_transaction |-> Ok(0), get_token_account |-> Ok(<<"token_account", 9>>),
     get_mint_account |-> Ok(<<"mint", 1>>)]

\* send_transaction and confirm_transaction each succeed or fail.
SendOutcomes ==
    {[DefaultRpc EXCEPT !.send_transaction = a, !.confirm_transaction = b] :
        a \in {Ok(0), Err("rpc")}, b \in {Ok(0), Err("rpc")}}

Next ==
    \/ \E list \in PermutationsOf(keys) : AggregateKeys(list)
    \/ \E k \in Range(keys) : StepOne(k)
    \/ \E k \in Range(keys), kind \in {"none"} \cup PayloadKinds \cup KeyKinds : StepTwo(k, kind)
    \/ \E kind \in {"none", "replace", "omit"} \cup PayloadKinds \cup KeyKinds,
          j \in DOMAIN keys, how \in 1..2, rpc \in SendOutcomes :
           /\ kind # "replace" => (j = 1 /\ how = 1)
           /\ kind # "none" => rpc = DefaultRpc
           /\ Aggregate(kind, j, how, rpc)

Spec == Init /\ [][Next]_vars

----------------------------------------------------------------------------
(* The API, request by request.  The handlers share no state (main.rs     *)
(* builds every RpcClient and every value from the request), so a reply    *)
(* depends on its request and on what the RPC node answers, not on the     *)
(* requests before it: a behaviour is one request and its reply.  The      *)
(* session variables stay as they start.                                   *)

\* A group of two signers whose round one is done, for the requests of the
\* later rounds.
ApiIds == <<1, 2>>

ApiRoundOne(k) ==
    agg_send_step_one([keypair |-> Bs58("keypair", Keypair(k))], <<k, 1>>).response.body

\* The string fields of a request, and its list fields, that a caller can
\* fill with a string that does not decode.
Corrupt(req, field) ==
    IF field \notin DOMAIN req THEN req
    ELSE IF field \in {"keys", "first_messages", "signatures"}
    THEN [req EXCEPT ![field] = [@ EXCEPT ![Len(@)] = Garbage]]
    ELSE [req EXCEPT ![field] = Garbage]

StringFields ==
    {"keypair", "to", "token_mint", "recent_block_hash", "keys", "first_messages",
     "secret_state", "signatures", "address", "owner"}

ApiAmounts == {0 - AmountResolution, 0, 2 * AmountResolution, MaxAmount}

ApiMemos == {None, Some(<<104, 105>>), Some([i \in 1..(MemoLimit + 1) |-> 104])}

ApiDecimals == {0, 1}

ApiStepTwoRequest(k, amount, memo) ==
    [keypair           |-> Bs58("keypair", Keypair(k)),
     amount            |-> amount,
     to                |-> Bs58("pubkey", Address("bob")),
     memo              |-> memo,
     recent_block_hash |-> Bs58("hash", 1),
     keys              |-> PubkeyStrings(ApiIds),
     first_messages    |-> [i \in DOMAIN ApiIds |-> ApiRoundOne(ApiIds[i]).message_1],
     secret_state      |-> ApiRoundOne(k).secret_state]

ApiAggregateRequest(amount, memo, net) ==
    [signatures        |-> [i \in DOMAIN ApiIds |->
                               agg_send_step_two(ApiStepTwoRequest(ApiIds[i], amount, memo))
                                   .response.body.partial_signature],
     amount            |-> amount,
     to                |-> Bs58("pubkey", Address("bob")),
     memo              |-> memo,
     recent_block_hash |-> Bs58("hash", 1),
     net               |-> net,
     keys              |-> PubkeyStrings(ApiIds)]

ApiSplStepTwoRequest(k, amount, decimals) ==
    [keypair           |-> Bs58("keypair", Keypair(k)),
     amount            |-> amount,
     to                |-> Bs58("pubkey", Address("bob")),
     token_mint        |-> Bs58("pubkey", Address("mint")),
     decimals          |-> decimals,
     memo              |-> None,
     recent_block_hash |-> Bs58("hash", 1),
     keys              |-> PubkeyStrings(ApiIds),
     first_messages    |-> [i \in DOMAIN ApiIds |-> ApiRoundOne(ApiIds[i]).message_1],
     secret_state      |-> ApiRoundOne(k).secret_state]

ApiSplAggregateRequest(amount, decimals) ==
    [signatures        |-> [i \in DOMAIN ApiIds |->
                               spl_agg_send_step_two(
                                   ApiSplStepTwoRequest(ApiIds[i], amount, decimals))
                                   .response.body.partial_signature],
     amount            |-> amount,
     to                |-> Bs58("pubkey", Address("bob")),
     token_mint        |-> Bs58("pubkey", Address("mint")),
     decimals          |-> decimals,
     memo              |-> None,
     recent_block_hash |-> Bs58("hash", 1),
     net               |-> "devnet",
     keys              |-> PubkeyStrings(ApiIds)]

\* The RPC node's answers to the operations of one request.
RpcAnswers(ops) ==
    {rpc \in RpcOutcomes : \A op \in DOMAIN rpc : op \notin ops => rpc[op] = DefaultRpc[op]}

\* A request with the reply it gets.
Exchange(handler, req, reply) == [handler |-> handler, req |-> req, reply |-> reply]

session == <<keys, payload, deviator, rng, msg1, secret, partial, used>>

ApiGenerateKeypair ==
    /\ last = NoCall
    /\ \E draw \in KeyIds : last' = Exchange("generate_keypair", <<>>, generate_keypair(draw))
    /\ UNCHANGED session

ApiBalance ==
    /\ last = NoCall
    /\ \E address \in {Bs58("pubkey", Address("bob")), Garbage}, net \in Networks,
          rpc \in RpcAnswers({"get_balance"}) :
           LET req == [address |-> address, net |-> net]
           IN  last' = Exchange("balance", req, balance(req, rpc))
    /\ UNCHANGED session

ApiAirdrop ==
    /\ last = NoCall
    /\ \E to \in {Bs58("pubkey", Address("bob")), Garbage}, amount \in {2 * AmountResolution},
          rpc \in RpcAnswers({"request_airdrop", "get_latest_blockhash", "confirm_transaction"}) :
           LET req == [to |-> to, amount |-> amount, net |-> "testnet"]
           IN  last' = Exchange("airdrop", req, airdrop(req, rpc))
    /\ UNCHANGED session

ApiSendSingle ==
    /\ last = NoCall
    /\ \E field \in {"none", "keypair", "to"}, amount \in {2 * AmountResolution}, memo \in Memos,
          rpc \in RpcAnswers({"get_latest_blockhash", "send_transaction", "confirm_transaction"}) :
           LET req == Corrupt([keypair |-> Bs58("keypair", Keypair(1)), amount |-> amount,
                               to |-> Bs58("pubkey", Address("bob")), net |-> "devnet",
                               memo |-> memo], field)
           IN  last' = Exchange("send_single", req, send_single(req, rpc))
    /\ UNCHANGED session

ApiRecentBlockHash ==
    /\ last = NoCall
    /\ \E net \in Networks, rpc \in RpcAnswers({"get_latest_blockhash"}) :
           last' = Exchange("recent_block_hash", [net |-> net],
                            recent_block_hash([net |-> net], rpc))
    /\ UNCHANGED session

\* Key lists of up to three strings, repeated keys and undecodable strings
\* among them.
ApiKeyLists ==
    LET strings == {Bs58("pubkey", PubkeyOf(1)), Bs58("pubkey", PubkeyOf(2)),
                    Bs58("pubkey", PubkeyOf(3)), Garbage}
    IN  UNION {[1..n -> strings] : n \in 1..3}

ApiAggregateKeys ==
    /\ last = NoCall
    /\ \E list \in ApiKeyLists :
           last' = Exchange("aggregate_keys", [keys |-> list], aggregate_keys([keys |-> list]))
    /\ UNCHANGED session

ApiAggSendStepOne ==
    /\ last = NoCall
    /\ \E keypair \in {Bs58("keypair", Keypair(1)), Bs58("pubkey", PubkeyOf(1)), Garbage},
          draw \in 1..2 :
           last' = Exchange("agg_send_step_one", [keypair |-> keypair],
                  agg_send_step_one([keypair |-> keypair], <<1, draw>>))
    /\ UNCHANGED session

ApiAggSendStepTwo ==
    /\ last = NoCall
    /\ \E field \in {"none"} \cup StringFields, k \in Range(ApiIds), memo \in Memos :
           LET req == Corrupt(ApiStepTwoRequest(k, 2 * AmountResolution, memo), field)
           IN  last' = Exchange("agg_send_step_two", req, agg_send_step_two(req))
    /\ UNCHANGED session

ApiAggregateSignatures ==
    /\ last = NoCall
    /\ \E field \in {"none"} \cup StringFields, memo \in Memos,
          rpc \in RpcAnswers({"send_transaction", "confirm_transaction"}) :
           LET req == Corrupt(ApiAggregateRequest(2 * AmountResolution, memo, "mainnet"), field)
           IN  last' = Exchange("aggregate_signatures", req, aggregate_signatures(req, rpc))
    /\ UNCHANGED session

ApiSplTokenBalance ==
    /\ last = NoCall
    /\ \E field \in {"none", "owner", "token_mint"},
          rpc \in RpcAnswers({"get_token_account", "get_mint_account"}) :
           LET req == Corrupt([owner |-> Bs58("pubkey", Address("bob")),
                               token_mint |-> Bs58("pubkey", Address("mint")),
                               net |-> "devnet"], field)
           IN  last' = Exchange("spl_token_balance", req, spl_token_balance(req, rpc))
    /\ UNCHANGED session

ApiSplSendSingle ==
    /\ last = NoCall
    /\ \E field \in {"none", "keypair", "to", "token_mint"}, amount \in ApiAmounts,
          decimals \in ApiDecimals, memo \in ApiMemos, self \in BOOLEAN,
          rpc \in RpcAnswers({"get_latest_blockhash", "send_transaction", "confirm_transaction"}) :
           LET req == Corrupt([keypair |-> Bs58("keypair", Keypair(1)), amount |-> amount,
                               to |-> Bs58("pubkey", IF self THEN PubkeyOf(1) ELSE Address("bob")),
                               token_mint |-> Bs58("pubkey", Address("mint")),
                               decimals |-> decimals, net |-> "devnet", memo |-> memo], field)
           IN  last' = Exchange("spl_send_single", req, spl_send_single(req, rpc))
    /\ UNCHANGED session

ApiSplAggSendStepTwo ==
    /\ last = NoCall
    /\ \E field \in {"none"} \cup StringFields, k \in Range(ApiIds), amount \in ApiAmounts,
          decimals \in ApiDecimals :
           LET req == Corrupt(ApiSplStepTwoRequest(k, amount, decimals), field)
           IN  last' = Exchange("spl_agg_send_step_two", req, spl_agg_send_step_two(req))
    /\ UNCHANGED session

ApiSplAggregateSignatures ==
    /\ last = NoCall
    /\ \E field \in {"none"} \cup StringFields, decimals \in ApiDecimals,
          rpc \in RpcAnswers({"send_transaction", "confirm_transaction"}) :
           LET req == Corrupt(ApiSplAggregateRequest(AmountResolution, decimals), field)
           IN  last' = Exchange("spl_aggregate_signatures", req, spl_aggregate_signatures(req, rpc))
    /\ UNCHANGED session

ApiInit ==
    /\ keys = <<1>>
    /\ payload = [amount |-> 2 * AmountResolution, to |-> Address("bob"), memo |-> None,
                  recent_block_hash |-> 1]
    /\ deviator = Nobody
    /\ rng = [k \in KeyIds |-> 0]
    /\ msg1 = [k \in KeyIds |-> None]
    /\ secret = [k \in KeyIds |-> None]
    /\ partial = [k \in KeyIds |-> None]
    /\ used = [k \in KeyIds |-> 0]
    /\ last = NoCall

ApiNext ==
    \/ ApiGenerateKeypair
    \/ ApiBalance
    \/ ApiAirdrop
    \/ ApiSendSingle
    \/ ApiRecentBlockHash
    \/ ApiAggregateKeys
    \/ ApiAggSendStepOne
    \/ ApiAggSendStepTwo
    \/ ApiAggregateSignatures
    \/ ApiSplTokenBalance
    \/ ApiSplSendSingle
    \/ ApiSplAggSendStepTwo
    \/ ApiSplAggregateSignatures

ApiSpec == ApiInit /\ [][ApiNext]_vars

----------------------------------------------------------------------------
(* Properties of a signing session.                                        *)

Assembled == last.handler = "aggregate_signatures"

\* The transactions that the last request has handed to send_transaction.
Submitted ==
    {last.reply.calls[i][3][1] :
        i \in {h \in DOMAIN last.reply.calls : last.reply.calls[h][1] = "send_transaction"}}

\* The requests that follow the session: every signer's latest answered
\* round-two request and the assembler's request carry the session's payload,
\* its key list, every participant's commitment and every partial signature.
HonestRoundTwo == \A k \in Range(keys) : partial[k][1].request = StepTwoRequest(k, "none")

HonestAssembly == last.req = AggregateRequest("none", 1, 1)

\* The aggregated public key of the session's participants.
SessionKey == key_agg([i \in DOMAIN keys |-> PubkeyOf(keys[i])], None)[2].agg_public_key

\* C1: for N in {1, 2, 3, 5} and every payload, when every signer has run
\* round one and round two with all the commitments and the same payload and
\* the partial signatures are assembled, the assembled signature (R, s)
\* satisfies s*B = R + c*X for the aggregated key X of the participants.
C1_NofNCorrectness ==
    (Assembled /\ HonestRoundTwo /\ HonestAssembly) =>
        /\ Cardinality(Submitted) = 1
        /\ \A tx \in Submitted : Ed25519Verify(tx.signatures[1], SessionKey, tx.message)

C1_Witness ==
    /\ Assembled /\ HonestRoundTwo /\ HonestAssembly
    /\ Len(keys) = 5
    /\ payload.memo # None
    /\ last.reply.response.status = 200

\* C2 (as the specification states it): a round-one witness (d, e) yields at
\* most one partial signature; a later agg_send_step_two request that carries
\* the same secret_state is rejected.
C2_WitnessUsedOnce == \A k \in KeyIds : used[k] <= 1

\* The session's key list in the order of the key ids.
Ascending == [i \in DOMAIN keys |-> i]

\* Round two of signer k and the assembly, as the session runs them but with
\* the participants listed in the order `list`.
RoundTwoWith(list, k) ==
    agg_send_step_two([StepTwoRequest(k, "none") EXCEPT
                          !.keys = PubkeyStrings(list),
                          !.first_messages = [i \in DOMAIN list |-> msg1[list[i]][1]]])

AssemblyWith(list, rpc) ==
    aggregate_signatures([AggregateRequest("none", 1, 1) EXCEPT
                             !.keys = PubkeyStrings(list),
                             !.signatures = [i \in DOMAIN list |->
                                 RoundTwoWith(list, list[i]).response.body.partial_signature]],
                         rpc)

\* C3: aggregate_keys returns the same aggregated key for every order of a
\* key list, and a session run with the key list in another order submits
\* the same transaction, with the same final signature, as the session with
\* the list in its original order.
C3_OrderIndependence ==
    /\ last.handler = "aggregate_keys" =>
           /\ last.reply.response.status = 200
           /\ last.reply = aggregate_keys([keys |-> PubkeyStrings(Ascending)])
    /\ (Assembled /\ HonestRoundTwo /\ HonestAssembly) =>
           /\ Cardinality(Submitted) = 1
           /\ last.reply.calls[1][3] = AssemblyWith(Ascending, DefaultRpc).calls[1][3]

C3_Witness ==
    /\ Assembled /\ HonestRoundTwo /\ HonestAssembly
    /\ Len(keys) = 3
    /\ keys = <<2, 3, 1>>
    /\ Cardinality(Submitted) = 1

\* The assembler's request carries a partial signature that no signer gave,
\* or lacks one.
ForeignSignatures ==
    \/ \E j \in DOMAIN keys, how \in 1..2 : last.req = AggregateRequest("replace", j, how)
    \/ Len(keys) > 1 /\ last.req = AggregateRequest("omit", 1, 1)

\* C4: when the supplied partial signatures do not assemble to a signature
\* that verifies against the aggregated key, as when one of them is replaced
\* by another scalar, aggregate_signatures answers InvalidAggregation and
\* send_transaction is not called: only a verifying transaction is submitted.
C4_InvalidAggregation ==
    Assembled =>
        /\ \A tx \in Submitted :
               Ed25519Verify(tx.signatures[1],
                   key_agg(ParsePubkeys(last.req.keys)[2], None)[2].agg_public_key,
                   tx.message)
        /\ (HonestRoundTwo /\ ForeignSignatures) =>
               /\ last.reply.response = error_response("InvalidAggregation")
               /\ last.reply.calls = <<>>

C4_Witness ==
    /\ Assembled /\ HonestRoundTwo
    /\ Len(keys) = 3
    /\ last.req = AggregateRequest("replace", 2, 2)
    /\ last.reply.response = error_response("InvalidAggregation")

\* What a request says the session signs, field by field as the caller
\* wrote it.
PayloadOf(req) == <<req.amount, req.to, req.memo, req.recent_block_hash, req.keys>>

\* What the request's fields come to in the canonical message: the
\* lamports, the recipient, the memo, the block hash and the set of keys.
CanonicalOf(req) ==
    <<sol_to_lamports(req.amount), req.to, req.memo, req.recent_block_hash, Range(req.keys)>>

NothingSubmitted ==
    /\ last.reply.response = error_response("InvalidAggregation")
    /\ last.reply.calls = <<>>

\* C5 (as the specification states it): when the latest round-two request
\* of some signer differs in any payload field from the assembler's request,
\* the assembled signature does not verify.
C5_AnyDifferenceDetected ==
    (Assembled /\ \E k \in Range(keys) : PayloadOf(partial[k][1].request) # PayloadOf(last.req))
        => NothingSubmitted

\* C5 (amended): when the round-two request of some signer and the
\* assembler's request differ in what they come to in the canonical message
\* (lamports, recipient, memo, block hash or set of keys), the assembled
\* signature does not verify; so a session signed without a memo does not
\* verify with one.
C5_TamperDetection ==
    (Assembled /\ \E k \in Range(keys) : CanonicalOf(partial[k][1].request) # CanonicalOf(last.req))
        => NothingSubmitted

C5_Witness ==
    /\ Assembled /\ HonestAssembly
    /\ Len(keys) = 3
    /\ deviator = 2
    /\ payload.memo = None
    /\ partial[2][1].request.memo # None
    /\ NothingSubmitted

\* The aggregated key of the key list of the assembler's request.
RequestKey == key_agg(ParsePubkeys(last.req.keys)[2], None)[2].agg_public_key

\* C8: in the transaction of the aggregation flow the fee payer and the
\* source of the transfer are the aggregated key of the request's key list,
\* never an individual signer's key, and the one signature, in the fee
\* payer's slot, verifies under it over the message the signers signed.
C8_FeePayerIsAggregatedKey ==
    Assembled =>
        /\ \A tx \in Submitted :
               /\ FeePayer(tx) = RequestKey
               /\ tx.message.instructions[1].signers = <<RequestKey>>
               /\ FeePayer(tx) \notin {PubkeyOf(k) : k \in KeyIds}
               /\ Len(tx.signatures) = 1
               /\ Ed25519Verify(tx.signatures[1], FeePayer(tx), tx.message)
        /\ (HonestRoundTwo /\ HonestAssembly) => Cardinality(Submitted) = 1

C8_Witness ==
    /\ Assembled /\ HonestRoundTwo /\ HonestAssembly
    /\ Len(keys) = 2
    /\ \E tx \in Submitted : FeePayer(tx) = SessionKey /\ FeePayer(tx) # PubkeyOf(keys[1])

\* The partial signatures of the assembler's request, decoded.
SuppliedPartials == DeserializeAll("partial", last.req.signatures)[2]

\* The commitments of round one, in the sorted order of the keys.
SessionCommitments ==
    Commitments(KeyList([i \in DOMAIN keys |-> PubkeyOf(keys[i])]),
                [i \in DOMAIN keys |-> deserialize_bs58("msg1", msg1[keys[i]][1])[2]])

----------------------------------------------------------------------------
(* Properties of the API.                                                  *)

\* The request's key strings all decode.
KeysDecode == \A i \in DOMAIN last.req.keys : IsOk(parse_pubkey(last.req.keys[i]))

RepeatedKey == \E i, j \in DOMAIN last.req.keys : i # j /\ last.req.keys[i] = last.req.keys[j]

\* C6: aggregate_keys with a key list in which a public key occurs twice
\* fails with DuplicateKey and returns no aggregated public key.
C6_DuplicateRejected ==
    (last.handler = "aggregate_keys" /\ RepeatedKey) =>
        /\ last.reply.response.status = 400
        /\ "aggregated_public_key" \notin DOMAIN last.reply.response.body
        /\ KeysDecode => last.reply.response = error_response("DuplicateKey")

C6_Witness ==
    /\ last.handler = "aggregate_keys"
    /\ Len(last.req.keys) = 3
    /\ KeysDecode
    /\ last.req.keys[1] = last.req.keys[3]
    /\ last.req.keys[1] # last.req.keys[2]
    /\ last.reply.response = error_response("DuplicateKey")

\* The request has a field that does not decode.
Undecodable ==
    /\ last.handler \notin {"none", "generate_keypair"}
    /\ \E f \in DOMAIN last.req \cap StringFields :
           IF f \in {"keys", "first_messages", "signatures"}
           THEN Garbage \in Range(last.req[f])
           ELSE last.req[f] = Garbage

\* The RPC operations of a request in which every step succeeds.
StepsOf(handler) ==
    CASE handler = "balance" -> <<"get_balance">>
      [] handler = "airdrop" ->
             <<"request_airdrop", "get_latest_blockhash", "confirm_transaction">>
      [] handler \in {"send_single", "spl_send_single"} ->
             <<"get_latest_blockhash", "send_transaction", "confirm_transaction">>
      [] handler = "recent_block_hash" -> <<"get_latest_blockhash">>
      [] handler \in {"aggregate_signatures", "spl_aggregate_signatures"} ->
             <<"send_transaction", "confirm_transaction">>
      [] handler = "spl_token_balance" -> <<"get_account", "get_account">>
      [] OTHER -> <<>>

FailedCall == \E i \in DOMAIN last.reply.calls : ~last.reply.calls[i][4]

\* C7: a failure of a handler, in decoding its input, in the protocol or at
\* the RPC node, is answered with status 400 and a body whose one field is
\* "error"; status 200 is answered only when every step of the handler
\* succeeded, and its body has no "error" field.
C7_ErrorShape ==
    last.handler # "none" =>
        LET r == last.reply.response
        IN  /\ r.status \in {200, 400}
            /\ r.status = 400 <=> DOMAIN r.body = {"error"}
            /\ r.status = 200 => "error" \notin DOMAIN r.body
            /\ (Undecodable \/ FailedCall) => r.status = 400
            /\ r.status = 200 =>
                   /\ ~FailedCall
                   /\ [i \in DOMAIN last.reply.calls |-> last.reply.calls[i][1]]
                          = StepsOf(last.handler)

C7_Witness ==
    /\ last.handler = "send_single"
    /\ ~Undecodable
    /\ Len(last.reply.calls) = 2
    /\ FailedCall
    /\ last.reply.response = error_response("SendTransactionFailed")

\* C9 (as the specification states it): a token transfer whose scaled amount
\* does not fit in an unsigned 64-bit integer fails with PayloadError, and
\* spl_send_single builds, signs and sends nothing.
C9_OverflowRejected ==
    (/\ last.handler = "spl_send_single"
     /\ ~Undecodable
     /\ ScaledAmount(last.req.amount, last.req.decimals) \notin 0..U64Max)
        => /\ last.reply.response = error_response("PayloadError")
           /\ last.reply.calls = <<>>

\* The places in the last request's calls of the RPC operation op.
CallsTo(op) == {i \in DOMAIN last.reply.calls : last.reply.calls[i][1] = op}

\* The handlers that sign a transaction and then confirm it.
SigningFlows ==
    {"send_single", "spl_send_single", "aggregate_signatures", "spl_aggregate_signatures"}

\* C11 (as the specification states it): in a flow that signs and then
\* confirms, the block hash passed to the confirmation comes from another
\* RPC round trip than the block hash the transaction was signed with; so a
\* request that reaches the confirmation has fetched a block hash besides
\* the one it signed with (which send_single and spl_send_single fetch, and
\* the assembly handlers are handed).
C11_ConfirmHashRefetched ==
    (last.handler \in SigningFlows /\ CallsTo("confirm_transaction") # {}) =>
        Cardinality(CallsTo("get_latest_blockhash")) >=
            IF last.handler \in {"send_single", "spl_send_single"} THEN 2 ELSE 1

\* C11 (amended): in a flow that signs and then confirms, the block hash
\* passed to the confirmation is the block hash of the transaction that was
\* sent, and no block hash is fetched after the signing: send_single and
\* spl_send_single fetch one block hash, before the send, and the assembly
\* handlers fetch none and use the request's.  Only airdrop confirms with a
\* block hash that it fetches after the transaction exists.
C11_ConfirmHashIsSignedHash ==
    /\ (last.handler \in SigningFlows) =>
           /\ \A c \in CallsTo("confirm_transaction"), t \in CallsTo("send_transaction") :
                  /\ t < c
                  /\ last.reply.calls[c][3][2] = last.reply.calls[t][3][1].message.recent_blockhash
                  /\ last.reply.calls[c][3][1] = last.reply.calls[t][3][1].signatures[1]
           /\ \A f \in CallsTo("get_latest_blockhash"), t \in CallsTo("send_transaction") : f < t
           /\ Cardinality(CallsTo("get_latest_blockhash")) =
                  IF last.handler \in {"send_single", "spl_send_single"}
                     /\ last.reply.calls # <<>>
                  THEN 1 ELSE 0
           /\ last.reply.response.status = 200 => CallsTo("confirm_transaction") # {}
    /\ (last.handler = "airdrop") =>
           \A c \in CallsTo("confirm_transaction") :
               \E a \in CallsTo("request_airdrop"), f \in CallsTo("get_latest_blockhash") :
                   a < f /\ f < c

C11_Witness ==
    /\ last.handler = "send_single"
    /\ last.reply.response.status = 200
    /\ \E c \in CallsTo("confirm_transaction"), t \in CallsTo("send_transaction") :
           last.reply.calls[c][3][2] = last.reply.calls[t][3][1].message.recent_blockhash

\* The RPC operations a handler attempts.
RpcOperations ==
    {"get_latest_blockhash", "get_balance", "request_airdrop", "send_transaction",
     "confirm_transaction"}

\* The places in the last request's calls of the calls that failed.
FailedCalls == {i \in DOMAIN last.reply.calls : ~last.reply.calls[i][4]}

\* C12: no error is retried. Within one request each RPC operation is
\* attempted at most once, and the first failing step is the last step of
\* the handler: a failed call is the last call of the request and the
\* request is answered with an error, so a failed block hash fetch is never
\* followed by a send and a failed send never by a confirmation; an account
\* that does not unpack is not followed by the next account's fetch.
C12_NoRetry ==
    last.handler # "none" =>
        /\ \A op \in RpcOperations : Cardinality(CallsTo(op)) <= 1
        /\ \A i \in FailedCalls :
               /\ i = Len(last.reply.calls)
               /\ last.reply.response.status = 400
        /\ \A f \in CallsTo("get_latest_blockhash") \cap FailedCalls :
               \A t \in CallsTo("send_transaction") \cup CallsTo("confirm_transaction") : t < f
        /\ \A t \in CallsTo("send_transaction") \cap FailedCalls :
               \A c \in CallsTo("confirm_transaction") : c < t
        /\ (/\ last.handler = "spl_token_balance"
            /\ last.reply.response.status = 400
            /\ last.reply.response.body.error = "Failed to parse token account")
               => Len(last.reply.calls) = 1

\* A send_single request whose send failed after the block hash was fetched:
\* the send is the last call and nothing is confirmed.
C12_Witness ==
    /\ last.handler = "send_single"
    /\ Len(last.reply.calls) = 2
    /\ last.reply.calls[1][1] = "get_latest_blockhash"
    /\ last.reply.calls[2][1] = "send_transaction"
    /\ FailedCalls = {2}
    /\ last.reply.response = error_response("SendTransactionFailed")

\* The handlers that compute their answer without the RPC node.
OfflineHandlers ==
    {"agg_send_step_one", "agg_send_step_two", "spl_agg_send_step_two", "aggregate_keys"}

\* C13: every field of a request is decoded before the first RPC call. A
\* request with a field that does not decode (keypair, address, block hash,
\* key, first message, secret state or partial signature) is answered with an
\* error and causes no RPC call, so no transaction is submitted; and
\* agg_send_step_one, agg_send_step_two, spl_agg_send_step_two and
\* aggregate_keys make no RPC call whatever the request.
C13_DecodeBeforeRpc ==
    last.handler # "none" =>
        /\ Undecodable =>
               /\ last.reply.calls = <<>>
               /\ last.reply.response.status = 400
        /\ last.handler \in OfflineHandlers => last.reply.calls = <<>>

\* An assembly request whose block hash does not decode, every other field
\* being well formed: nothing is sent.
C13_Witness ==
    /\ last.handler = "aggregate_signatures"
    /\ last.req.recent_block_hash = Garbage
    /\ Garbage \notin Range(last.req.keys) \cup Range(last.req.signatures)
    /\ last.req.to # Garbage
    /\ last.reply.calls = <<>>
    /\ last.reply.response = error_response(parse_hash(Garbage)[2])

====
